---- MODULE Spec2Model ----
(***************************************************************************)
(* A model of bigmul (src/src/main.rs): the BigInt limb representation,    *)
(* its decimal conversion, the limb primitives (normalize, add, sub,       *)
(* shift) and the three multiplication algorithms (direct, four-way        *)
(* divide and conquer, Karatsuba), together with the driver's trial that   *)
(* cross-checks the three products.                                        *)
(*                                                                         *)
(* Vec<u32> is a sequence; Rust's index i is the sequence's index i + 1.   *)
(* The limb functions take the radix (const BASE) and the recursion        *)
(* cut-off (the literal 32) as their first parameters B and T, so that one *)
(* definition is checked both at the program's constants, on chosen limb   *)
(* patterns, and at reduced radices, on every operand up to a length, where*)
(* the value of a limb sequence is a machine integer.                      *)
(***************************************************************************)
EXTENDS Integers, Sequences, FiniteSets, TLC

VARIABLES
    radix,      \* the value of BASE the current trial runs at
    cutoff,     \* the base-case threshold the current trial runs at
    \* An arithmetic trial: two slices, then one limb primitive applied.
    op,         \* "ready", then the primitive applied
    lhs, rhs,   \* the two operand slices
    shiftk,     \* the limb count of a shift
    res,        \* the primitive's result
    borrow,     \* sub_slices' borrow after its last limb
    \* One instance of main's loop body (lines 257-275).
    pc,         \* "gen", "direct", "dc", "kara", "assert", "panic"
    big_a,      \* the digits of main's a
    big_b,      \* the digits of main's b
    prod1,      \* a.mul_direct(&b)
    prod2,      \* a.mul_dc(&b)
    prod3,      \* a.mul_karatsuba(&b)
    obs1,       \* what the run of mul_direct let one observe
    log2,       \* the run of mul_dc: frames, observations, stack overflow
    log3,       \* the run of mul_karatsuba: the same
    \* A decimal conversion: a string parsed, then rendered.
    spc,        \* "input", "parsed" or "panic", "shown"
    text,       \* the input string's bytes
    parsed,     \* the run of from_str on text
    shown,      \* to_string of the parsed value
    \* A sequence of BigInt operations on two values.
    val_x,      \* the digits of one BigInt
    val_y,      \* the digits of another
    nops        \* the operations applied so far

arithVars == <<op, lhs, rhs, shiftk, res, borrow>>

mulVars == <<pc, big_a, big_b, prod1, prod2, prod3, obs1, log2, log3>>

strVars == <<spc, text, parsed, shown>>

poolVars == <<val_x, val_y, nops>>

vars == <<radix, cutoff, arithVars, mulVars, strVars, poolVars>>

-----------------------------------------------------------------------------
(* Program constants. *)

BASE == 1000000000

THRESHOLD == 32

(* Bounds of the model. *)

MaxLenBinary == 4

MaxLenTernary == 3

MaxShift == 2

MaxLimbsBinary == 6

MaxLimbsTernary == 3

(* The base-case threshold of the trials at a reduced radix. *)
SmallThreshold == 3

(* The deepest nesting of recursive calls the stack holds. *)
MaxDepth == 6

(* Decimal conversions: the characters of a head and of a tail around a    *)
(* run of one repeated digit.                                              *)
MaxHead == 2

MaxRun == 17

MaxTail == 1

(* Sequences of operations: how many are applied. *)
MaxOps == 4

-----------------------------------------------------------------------------
(* Helpers standing for Rust's cmp::max, cmp::min and vec![0u32; n]. *)

Max(x, y) == IF x >= y THEN x ELSE y

Min(x, y) == IF x <= y THEN x ELSE y

Zeros(n) == [i \in 1..n |-> 0]

(* e, once v is computed: the value is e's.  A loop's second half of       *)
(* iterations starts from the computed state of its first half.            *)
After(v, e) == IF v = v THEN e ELSE e

-----------------------------------------------------------------------------
(* BigInt::new *)

new == <<0>>

(* BigInt::normalize: `while digits.len() > 1 && last == 0 { pop }`.  The   *)
(* loop leaves the limbs up to the highest nonzero one, and one limb when  *)
(* every limb is zero; an empty vector stays empty.                        *)
normalize(digits) ==
    LET nonzero == {i \in 1..Len(digits) : digits[i] # 0}
        keep == IF nonzero = {}
                THEN Min(1, Len(digits))
                ELSE CHOOSE i \in nonzero : \A j \in nonzero : j <= i
    IN SubSeq(digits, 1, keep)

(* Loops over an index range are unfolded as the iterations lo .. hi - 1   *)
(* in order, the range split in halves; st holds the loop's variables.     *)

(* A variant of add_step that drops the carry out of each limb. *)
add_step_nocarry(B, a, b, i, st) ==
    LET ai == IF i < Len(a) THEN a[i + 1] ELSE 0
        bi == IF i < Len(b) THEN b[i + 1] ELSE 0
        sum == ai + bi + st.carry
    IN [result |-> [st.result EXCEPT ![i + 1] = sum % B],
        carry |-> 0]

(* One iteration of add_slices' loop. *)
add_step(B, a, b, i, st) ==
    LET ai == IF i < Len(a) THEN a[i + 1] ELSE 0
        bi == IF i < Len(b) THEN b[i + 1] ELSE 0
        sum == ai + bi + st.carry
    IN [result |-> [st.result EXCEPT ![i + 1] = sum % B],
        carry |-> sum \div B]

RECURSIVE add_range(_, _, _, _, _, _)
add_range(B, a, b, lo, hi, st) ==
    IF hi <= lo THEN st
    ELSE IF hi = lo + 1 THEN add_step(B, a, b, lo, st)
    ELSE LET mid == (lo + hi) \div 2
             left == add_range(B, a, b, lo, mid, st)
         IN After(left, add_range(B, a, b, mid, hi, left))

(* A variant of add_slices that loses the carry out of the top limb. *)
add_slices_nocarry(B, a, b) ==
    LET max_len == Max(Len(a), Len(b))
        done == add_range(B, a, b, 0, max_len,
                          [result |-> Zeros(max_len + 1), carry |-> 0])
    IN normalize(done.result)

(* BigInt::add_slices *)
add_slices(B, a, b) ==
    LET max_len == Max(Len(a), Len(b))
        done == add_range(B, a, b, 0, max_len,
                          [result |-> Zeros(max_len + 1), carry |-> 0])
        result == IF done.carry > 0
                  THEN [done.result EXCEPT ![max_len + 1] = done.carry]
                  ELSE done.result
    IN normalize(result)

(* A variant of sub_step that never records a borrow. *)
sub_step_noborrow(B, a, b, i, st) ==
    LET ai == a[i + 1]
        bi == IF i < Len(b) THEN b[i + 1] ELSE 0
        diff == ai - bi - st.borrow
    IN IF diff < 0
       THEN [result |-> [st.result EXCEPT ![i + 1] = diff + B], borrow |-> 0]
       ELSE [result |-> [st.result EXCEPT ![i + 1] = diff], borrow |-> 0]

(* One iteration of sub_slices' loop. *)
sub_step(B, a, b, i, st) ==
    LET ai == a[i + 1]
        bi == IF i < Len(b) THEN b[i + 1] ELSE 0
        diff == ai - bi - st.borrow
    IN IF diff < 0
       THEN [result |-> [st.result EXCEPT ![i + 1] = diff + B], borrow |-> 1]
       ELSE [result |-> [st.result EXCEPT ![i + 1] = diff], borrow |-> 0]

RECURSIVE sub_range(_, _, _, _, _, _)
sub_range(B, a, b, lo, hi, st) ==
    IF hi <= lo THEN st
    ELSE IF hi = lo + 1 THEN sub_step(B, a, b, lo, st)
    ELSE LET mid == (lo + hi) \div 2
             left == sub_range(B, a, b, lo, mid, st)
         IN After(left, sub_range(B, a, b, mid, hi, left))

(* BigInt::sub_slices, with the borrow its loop ends with. *)
sub_run(B, a, b) ==
    LET max_len == Len(a)
        done == sub_range(B, a, b, 0, max_len,
                          [result |-> Zeros(max_len), borrow |-> 0])
    IN [result |-> normalize(done.result), borrow |-> done.borrow]

sub_slices(B, a, b) == sub_run(B, a, b).result

(* A variant of shift_left_slices without the special case of zero. *)
shift_left_slices_unguarded(digits, k) == Zeros(k) \o digits

(* BigInt::shift_left_slices *)
shift_left_slices(digits, k) ==
    IF digits = <<0>> THEN <<0>> ELSE Zeros(k) \o digits

-----------------------------------------------------------------------------
(* 64-bit accumulators.  TLC's integers are 32 bits wide, so a u64     *)
(* is held as <<hi, lo>> standing for hi * B + lo with 0 <= lo < B: its    *)
(* `% BASE` is lo and its `/ BASE` is hi.                                  *)

(* a[i] as u64 * b[j] as u64: the exact product.  Limbs of the program's   *)
(* radix are multiplied in three base-1000 digits each (1000^3 = BASE).    *)
MulU64(B, x, y) ==
    IF x <= 46340 /\ y <= 46340
    THEN <<(x * y) \div B, (x * y) % B>>
    ELSE LET x0 == x % 1000
             x1 == (x \div 1000) % 1000
             x2 == x \div 1000000
             y0 == y % 1000
             y1 == (y \div 1000) % 1000
             y2 == y \div 1000000
             c0 == x0 * y0
             c1 == x0 * y1 + x1 * y0 + (c0 \div 1000)
             c2 == x0 * y2 + x1 * y1 + x2 * y0 + (c1 \div 1000)
             c3 == x1 * y2 + x2 * y1 + (c2 \div 1000)
             c4 == x2 * y2 + (c3 \div 1000)
         IN <<(c3 % 1000) + 1000 * (c4 % 1000) + 1000000 * (c4 \div 1000),
              (c0 % 1000) + 1000 * (c1 % 1000) + 1000000 * (c2 % 1000)>>

(* t + v for a u64 t and a limb or carry v. *)
AddU64(B, t, v) ==
    LET lo == t[2] + (v % B)
    IN <<t[1] + (v \div B) + (lo \div B), lo % B>>

(* What a run of mul_direct_slices lets one observe: the largest temp (as  *)
(* <<hi, lo>>), the largest carry, and how often result.push(0) ran.       *)
NoObs == [maxTemp |-> <<0, 0>>, maxCarry |-> 0, pushes |-> 0]

MaxU64(t, u) ==
    IF t[1] > u[1] \/ (t[1] = u[1] /\ t[2] >= u[2]) THEN t ELSE u

Observe(obs, temp) ==
    [obs EXCEPT !.maxTemp = MaxU64(@, temp), !.maxCarry = Max(@, temp[1])]

MergeObs(o1, o2) ==
    [maxTemp |-> MaxU64(o1.maxTemp, o2.maxTemp),
     maxCarry |-> Max(o1.maxCarry, o2.maxCarry),
     pushes |-> o1.pushes + o2.pushes]

(* A variant of inner_temp that leaves the carry out. *)
inner_temp_nocarry(B, ai, bj, rij, carry) ==
    AddU64(B, MulU64(B, ai, bj), rij)

(* temp of the inner loop: a[i] * b[j] + result[i + j] + carry *)
inner_temp(B, ai, bj, rij, carry) ==
    AddU64(B, AddU64(B, MulU64(B, ai, bj), rij), carry)

(* One iteration of the inner loop of mul_direct_slices, row i, column j;  *)
(* st holds result, carry and what was observed so far.                    *)
inner_step(B, a, b, i, j, st) ==
    LET temp == inner_temp(B, a[i + 1], b[j + 1], st.result[i + j + 1], st.carry)
    IN [result |-> [st.result EXCEPT ![i + j + 1] = temp[2]],
        carry |-> temp[1],
        obs |-> Observe(st.obs, temp)]

RECURSIVE inner_range(_, _, _, _, _, _, _)
inner_range(B, a, b, i, lo, hi, st) ==
    IF hi <= lo THEN st
    ELSE IF hi = lo + 1 THEN inner_step(B, a, b, i, lo, st)
    ELSE LET mid == (lo + hi) \div 2
             left == inner_range(B, a, b, i, lo, mid, st)
         IN After(left, inner_range(B, a, b, i, mid, hi, left))

(* The carry loop of mul_direct_slices: `while carry > 0` from position k. *)
RECURSIVE direct_carry(_, _, _)
direct_carry(B, k, st) ==
    IF st.carry <= 0
    THEN st
    ELSE LET grown == IF k = Len(st.result) THEN Append(st.result, 0)
                      ELSE st.result
             pushed == IF k = Len(st.result) THEN 1 ELSE 0
             temp == AddU64(B, <<0, grown[k + 1]>>, st.carry)
         IN direct_carry(B, k + 1,
                         [result |-> [grown EXCEPT ![k + 1] = temp[2]],
                          carry |-> temp[1],
                          obs |-> [Observe(st.obs, temp)
                                       EXCEPT !.pushes = @ + pushed]])

(* One iteration of the outer loop: carry = 0, the inner loop over every   *)
(* column of b, then the carry loop from k = i + len_b.                    *)
row_step(B, a, b, i, st) ==
    direct_carry(B, i + Len(b),
                 inner_range(B, a, b, i, 0, Len(b), [st EXCEPT !.carry = 0]))

RECURSIVE rows_range(_, _, _, _, _, _)
rows_range(B, a, b, lo, hi, st) ==
    IF hi <= lo THEN st
    ELSE IF hi = lo + 1 THEN row_step(B, a, b, lo, st)
    ELSE LET mid == (lo + hi) \div 2
             left == rows_range(B, a, b, lo, mid, st)
         IN After(left, rows_range(B, a, b, mid, hi, left))

(* A variant of direct_len one limb short. *)
direct_len_short(a, b) == Len(a) + Len(b) - 1

(* vec![0u32; len_a + len_b]: the limbs result is pre-sized to. *)
direct_len(a, b) == Len(a) + Len(b)

(* BigInt::mul_direct_slices, with what its run lets one observe. *)
mul_direct_run(B, a, b) ==
    IF Len(a) = 0 \/ Len(b) = 0
    THEN [result |-> <<0>>, obs |-> NoObs]
    ELSE LET done == rows_range(B, a, b, 0, Len(a),
                                [result |-> Zeros(direct_len(a, b)),
                                 carry |-> 0, obs |-> NoObs])
         IN [result |-> normalize(done.result), obs |-> done.obs]

mul_direct_slices(B, a, b) == mul_direct_run(B, a, b).result

-----------------------------------------------------------------------------
(* The two recursive multiplications.  A run returns the product, the      *)
(* frames of its recursive levels (the locals of each level that split its *)
(* operands), what its base-case multiplications let one observe, and      *)
(* whether a call was nested deeper than the stack allows.                 *)

(* let m = n / 2 *)
split_point(n) == n \div 2

(* A variant of is_base_case that recurses already at T limbs. *)
is_base_case_strict(T, n) == n <= T - 1

(* n <= 32: the operands go to mul_direct_slices. *)
is_base_case(T, n) == n <= T

(* &a[0..cmp::min(m, a.len())] *)
low_half(a, m) == SubSeq(a, 1, Min(m, Len(a)))

(* A variant of high_half that starts one limb too high. *)
high_half_skipping(a, m) == IF Len(a) > m THEN SubSeq(a, m + 2, Len(a)) ELSE <<>>

(* if a.len() > m { &a[m..] } else { &[] } *)
high_half(a, m) == IF Len(a) > m THEN SubSeq(a, m + 1, Len(a)) ELSE <<>>

Leaf(result, obs) ==
    [result |-> result, frames |-> {}, obs |-> obs, overflow |-> FALSE]

StackOverflow ==
    [result |-> <<0>>, frames |-> {}, obs |-> NoObs, overflow |-> TRUE]

(* BigInt::mul_dc_slices, called at nesting depth `depth`. *)
RECURSIVE mul_dc_run(_, _, _, _, _)
mul_dc_run(B, T, a, b, depth) ==
    IF depth > MaxDepth THEN StackOverflow
    ELSE IF Len(a) = 0 \/ Len(b) = 0 THEN Leaf(<<0>>, NoObs)
    ELSE IF is_base_case(T, Max(Len(a), Len(b)))
    THEN LET d == mul_direct_run(B, a, b) IN Leaf(d.result, d.obs)
    ELSE LET n == Max(Len(a), Len(b))
             m == split_point(n)
             a0 == low_half(a, m)
             a1 == high_half(a, m)
             b0 == low_half(b, m)
             b1 == high_half(b, m)
             P == mul_dc_run(B, T, a0, b0, depth + 1)
             Q == mul_dc_run(B, T, a1, b1, depth + 1)
             R == mul_dc_run(B, T, a0, b1, depth + 1)
             S == mul_dc_run(B, T, a1, b0, depth + 1)
             mid == add_slices(B, R.result, S.result)
             q_shifted == shift_left_slices(Q.result, 2 * m)
             mid_shifted == shift_left_slices(mid, m)
             temp == add_slices(B, q_shifted, mid_shifted)
             frame == [n |-> n, m |-> m, a0 |-> a0, a1 |-> a1, b0 |-> b0,
                       b1 |-> b1, p |-> P.result, q |-> Q.result,
                       r |-> R.result, s |-> S.result, mid |-> mid]
         IN [result |-> add_slices(B, temp, P.result),
             frames |-> {frame} \cup P.frames \cup Q.frames \cup R.frames
                            \cup S.frames,
             obs |-> MergeObs(MergeObs(P.obs, Q.obs), MergeObs(R.obs, S.obs)),
             overflow |-> P.overflow \/ Q.overflow \/ R.overflow \/ S.overflow]

mul_dc_slices(B, T, a, b) == mul_dc_run(B, T, a, b, 0).result

(* BigInt::mul_karatsuba_slices, called at nesting depth `depth`. *)
RECURSIVE mul_karatsuba_run(_, _, _, _, _)
mul_karatsuba_run(B, T, a, b, depth) ==
    IF depth > MaxDepth THEN StackOverflow
    ELSE IF Len(a) = 0 \/ Len(b) = 0 THEN Leaf(<<0>>, NoObs)
    ELSE IF is_base_case(T, Max(Len(a), Len(b)))
    THEN LET d == mul_direct_run(B, a, b) IN Leaf(d.result, d.obs)
    ELSE LET n == Max(Len(a), Len(b))
             m == split_point(n)
             a0 == low_half(a, m)
             a1 == high_half(a, m)
             b0 == low_half(b, m)
             b1 == high_half(b, m)
             P == mul_karatsuba_run(B, T, a0, b0, depth + 1)
             Q == mul_karatsuba_run(B, T, a1, b1, depth + 1)
             sum_a == add_slices(B, a0, a1)
             sum_b == add_slices(B, b0, b1)
             U == mul_karatsuba_run(B, T, sum_a, sum_b, depth + 1)
             sum_pq == add_slices(B, P.result, Q.result)
             sb == sub_run(B, U.result, sum_pq)
             mid == sb.result
             q_shifted == shift_left_slices(Q.result, 2 * m)
             mid_shifted == shift_left_slices(mid, m)
             temp == add_slices(B, q_shifted, mid_shifted)
             frame == [n |-> n, m |-> m, a0 |-> a0, a1 |-> a1, b0 |-> b0,
                       b1 |-> b1, p |-> P.result, q |-> Q.result,
                       sum_a |-> sum_a, sum_b |-> sum_b, u |-> U.result,
                       sum_pq |-> sum_pq, mid |-> mid, borrow |-> sb.borrow]
         IN [result |-> add_slices(B, temp, P.result),
             frames |-> {frame} \cup P.frames \cup Q.frames \cup U.frames,
             obs |-> MergeObs(MergeObs(P.obs, Q.obs), U.obs),
             overflow |-> P.overflow \/ Q.overflow \/ U.overflow]

mul_karatsuba_slices(B, T, a, b) == mul_karatsuba_run(B, T, a, b, 0).result

-----------------------------------------------------------------------------
(* Decimal conversion.  A &str is the sequence of its UTF-8 bytes: an      *)
(* ASCII character is the one-character string of itself, and the two      *)
(* bytes of a two-byte character are "C3" (its lead byte) and "A9" (its    *)
(* continuation byte).                                                     *)

DigitChars == <<"0", "1", "2", "3", "4", "5", "6", "7", "8", "9">>

IsDigit(c) == \E i \in 1..10 : DigitChars[i] = c

DigitOf(c) == (CHOOSE i \in 1..10 : DigitChars[i] = c) - 1

(* str::is_char_boundary: index 0, the length, or a byte that is no        *)
(* continuation byte.                                                      *)
is_char_boundary(ss, index) ==
    \/ index = 0
    \/ index = Len(ss)
    \/ (index < Len(ss) /\ ss[index + 1] # "A9")

RECURSIVE DecimalValue(_, _, _)
DecimalValue(body, t, v) ==
    IF t > Len(body) THEN v
    ELSE DecimalValue(body, t + 1, v * 10 + DigitOf(body[t]))

(* chunk.parse::<u32>(): an optional leading '+', then one or more decimal *)
(* digits.  A chunk has at most 9 bytes, so the value is below 10^9 and    *)
(* the overflow error cannot arise.                                        *)
parse_u32(chunk) ==
    LET body == IF Len(chunk) > 0 /\ chunk[1] = "+" THEN Tail(chunk) ELSE chunk
    IN IF Len(body) = 0 \/ \E t \in 1..Len(body) : ~IsDigit(body[t])
       THEN [ok |-> FALSE, val |-> 0]
       ELSE [ok |-> TRUE, val |-> DecimalValue(body, 1, 0)]

(* .unwrap_or(0) *)
unwrap_or(r, default) == IF r.ok THEN r.val ELSE default

(* cmp::min(9, ss.len()) *)
chunk_size(ss) == Min(9, Len(ss))

(* The while loop of from_str.  Slicing ss at an index that is not a       *)
(* character boundary panics.                                              *)
RECURSIVE from_str_loop(_, _)
from_str_loop(ss, digits) ==
    IF Len(ss) = 0
    THEN [panicked |-> FALSE, digits |-> digits]
    ELSE LET start == Len(ss) - chunk_size(ss)
             chunk == SubSeq(ss, start + 1, Len(ss))
             digit == unwrap_or(parse_u32(chunk), 0)
         IN IF ~is_char_boundary(ss, start)
            THEN [panicked |-> TRUE, digits |-> digits]
            ELSE from_str_loop(SubSeq(ss, 1, start), Append(digits, digit))

(* BigInt::from_str: whether it panicked, the limbs pushed by its loop,    *)
(* and the digits of the BigInt it returns.                                *)
from_str_run(s) ==
    IF Len(s) = 0
    THEN [panicked |-> FALSE, pushed |-> <<>>, digits |-> new]
    ELSE LET done == from_str_loop(s, <<>>)
             digits == normalize(done.digits)
         IN IF done.panicked
            THEN [panicked |-> TRUE, pushed |-> done.digits, digits |-> <<>>]
            ELSE [panicked |-> FALSE, pushed |-> done.digits,
                  digits |-> IF Len(digits) = 0 THEN <<0>> ELSE digits]

NotParsed == [panicked |-> FALSE, pushed |-> <<>>, digits |-> <<>>]

(* u32::to_string: the decimal digits, no padding. *)
RECURSIVE to_decimal(_)
to_decimal(d) ==
    IF d < 10 THEN <<DigitChars[d + 1]>>
    ELSE Append(to_decimal(d \div 10), DigitChars[(d % 10) + 1])

(* A variant of pad9 that does not pad. *)
pad9_unpadded(d) == to_decimal(d)

(* format!("{:09}", d): zero-padded to at least 9 characters. *)
pad9(d) ==
    LET plain == to_decimal(d)
    IN IF Len(plain) >= 9 THEN plain
       ELSE [i \in 1..(9 - Len(plain)) |-> "0"] \o plain

(* The loop of to_string over the limbs below the top one, high to low. *)
RECURSIVE to_string_loop(_, _, _)
to_string_loop(digits, t, s) ==
    IF t = 0 THEN s
    ELSE to_string_loop(digits, t - 1, s \o pad9(digits[t]))

(* BigInt::to_string *)
to_string(digits) ==
    IF Len(digits) = 0 \/ digits = <<0>>
    THEN <<"0">>
    ELSE to_string_loop(digits, Len(digits) - 1, to_decimal(digits[Len(digits)]))

-----------------------------------------------------------------------------
(* The value of a limb sequence, sum of limb[i] * B^i, and whether it is a *)
(* machine integer of TLC.                                                 *)

RECURSIVE HornerFits(_, _, _, _)
HornerFits(B, s, t, v) ==
    IF t = 0 THEN TRUE
    ELSE IF v > (2147483647 - s[t]) \div B THEN FALSE
    ELSE HornerFits(B, s, t - 1, v * B + s[t])

ValueFits(B, s) == HornerFits(B, s, Len(s), 0)

RECURSIVE Value(_, _)
Value(B, s) == IF Len(s) = 0 THEN 0 ELSE s[1] + B * Value(B, SubSeq(s, 2, Len(s)))

(* Whether value(a) >= value(b), by comparing limbs from the top; it needs *)
(* no machine integer larger than a limb.                                  *)
RECURSIVE LimbsGE(_, _, _)
LimbsGE(a, b, t) ==
    IF t = 0 THEN TRUE
    ELSE LET at == IF t <= Len(a) THEN a[t] ELSE 0
             bt == IF t <= Len(b) THEN b[t] ELSE 0
         IN IF at > bt THEN TRUE
            ELSE IF at < bt THEN FALSE
            ELSE LimbsGE(a, b, t - 1)

ValueGE(a, b) == LimbsGE(a, b, Max(Len(a), Len(b)))

(* The representation invariant of a BigInt's digits. *)
Normalized(B, s) ==
    /\ Len(s) >= 1
    /\ \A i \in 1..Len(s) : s[i] >= 0 /\ s[i] < B
    /\ (s[Len(s)] # 0 \/ s = <<0>>)

(* The value of a limb sequence modulo p, for p below 46340. *)
RECURSIVE ResidueFrom(_, _, _, _, _)
ResidueFrom(B, s, p, t, v) ==
    IF t = 0 THEN v
    ELSE ResidueFrom(B, s, p, t - 1, (v * (B % p) + (s[t] % p)) % p)

Residue(B, s, p) == ResidueFrom(B, s, p, Len(s), 0)

Moduli == {46337, 46327, 46309}

(* Whether value(x) + value(y) is a machine integer. *)
SumFits(B, x, y) ==
    /\ ValueFits(B, x)
    /\ ValueFits(B, y)
    /\ Value(B, x) <= 2147483647 - Value(B, y)

(* Whether value(x) * value(y) is a machine integer. *)
ProductFits(B, x, y) ==
    /\ ValueFits(B, x)
    /\ ValueFits(B, y)
    /\ (Value(B, x) = 0 \/ Value(B, y) <= 2147483647 \div Value(B, x))

(* value(z) = value(x) * value(y): compared as integers where the product  *)
(* is a machine integer, and modulo each of Moduli in every case.          *)
IsProduct(B, x, y, z) ==
    /\ ProductFits(B, x, y) =>
          ValueFits(B, z) /\ Value(B, z) = Value(B, x) * Value(B, y)
    /\ \A p \in Moduli :
          Residue(B, z, p) = (Residue(B, x, p) * Residue(B, y, p)) % p

(* 2^64 - 1 in limbs of the program's radix, and whether a u64 held as     *)
(* <<hi, lo>> at radix B is at most that.                                  *)
U64Max == <<709551615, 446744073, 18>>

FitsU64(B, t) ==
    IF B = BASE
    THEN ValueGE(U64Max, <<t[2], t[1] % BASE, t[1] \div BASE>>)
    ELSE ValueGE(U64Max, <<(t[1] * B + t[2]) % BASE, (t[1] * B + t[2]) \div BASE>>)

-----------------------------------------------------------------------------
(* Operand slices: every sequence of limbs below B of at most n limbs,     *)
(* the empty slice and slices with high-order zero limbs included.         *)
Slices(B, n) == UNION {[1..k -> 0..(B - 1)] : k \in 0..n}

(* Limb patterns at the program's radix. *)
WideOperands ==
    { <<>>, <<0>>, <<1>>, <<BASE - 1>>, <<BASE \div 2>>,
      <<0, 1>>, <<1, 0>>, <<BASE - 1, BASE - 1>>, <<0, 0, 1>>,
      <<BASE - 1, 0, BASE - 1>>, <<1, BASE - 1>> }

ArithOperands(B) ==
    IF B = 2 THEN Slices(2, MaxLenBinary)
    ELSE IF B = 3 THEN Slices(3, MaxLenTernary)
    ELSE WideOperands

(* The variables of a machine that is not running. *)
ArithIdle ==
    /\ op = "idle"
    /\ lhs = <<>>
    /\ rhs = <<>>
    /\ shiftk = 0
    /\ res = <<>>
    /\ borrow = 0

MulIdle ==
    /\ pc = "idle"
    /\ big_a = new
    /\ big_b = new
    /\ prod1 = <<>>
    /\ prod2 = <<>>
    /\ prod3 = <<>>
    /\ obs1 = NoObs
    /\ log2 = Leaf(<<>>, NoObs)
    /\ log3 = Leaf(<<>>, NoObs)

StrIdle ==
    /\ spc = "idle"
    /\ text = <<>>
    /\ parsed = NotParsed
    /\ shown = <<>>

PoolIdle ==
    /\ val_x = new
    /\ val_y = new
    /\ nops = 0

(* One arithmetic trial: two operand slices, then one primitive applied.   *)
ArithInit ==
    /\ radix \in {2, 3, BASE}
    /\ cutoff = THRESHOLD
    /\ lhs \in ArithOperands(radix)
    /\ rhs \in ArithOperands(radix)
    /\ op = "ready"
    /\ shiftk = 0
    /\ res = <<>>
    /\ borrow = 0
    /\ MulIdle
    /\ StrIdle
    /\ PoolIdle

Add ==
    /\ op = "ready"
    /\ op' = "add"
    /\ res' = add_slices(radix, lhs, rhs)
    /\ UNCHANGED <<radix, cutoff, lhs, rhs, shiftk, borrow, mulVars, strVars, poolVars>>

Sub ==
    /\ op = "ready"
    /\ op' = "sub"
    /\ LET run == sub_run(radix, lhs, rhs)
       IN res' = run.result /\ borrow' = run.borrow
    /\ UNCHANGED <<radix, cutoff, lhs, rhs, shiftk, mulVars, strVars, poolVars>>

ShiftLeft ==
    /\ op = "ready"
    /\ \E k \in 0..MaxShift :
          /\ shiftk' = k
          /\ res' = shift_left_slices(lhs, k)
    /\ op' = "shift"
    /\ UNCHANGED <<radix, cutoff, lhs, rhs, borrow, mulVars, strVars, poolVars>>

ArithNext == Add \/ Sub \/ ShiftLeft

SpecArith == ArithInit /\ [][ArithNext]_vars

-----------------------------------------------------------------------------
(* main's loop body: two operands, the three products, the two assert_eq!. *)
(* random_bigint yields any normalized value of the requested size; the    *)
(* trial draws the operands from three families.                           *)

Norm(B, n) == {s \in Slices(B, n) : Normalized(B, s)}

(* Limb patterns of k limbs at the program's radix. *)
Top(k) == [i \in 1..k |-> IF i = k THEN 1 ELSE 0]

Full(k) == [i \in 1..k |-> BASE - 1]

Ramp(k) == [i \in 1..k |-> ((i % 30) * 61728395 + i * 7001 + 7) % BASE]

WideLengths == {1, THRESHOLD, THRESHOLD + 1, THRESHOLD + 2}

(* Twice the threshold and two: both halves recurse once more. *)
DeepLength == 2 * THRESHOLD + 2

WideValues ==
    {new} \cup {Top(k) : k \in WideLengths} \cup {Full(k) : k \in WideLengths}
          \cup {Ramp(THRESHOLD + 1), Ramp(DeepLength), Full(DeepLength)}

TrialOperands(B) ==
    IF B = 2 THEN Norm(2, MaxLimbsBinary)
    ELSE IF B = 3 THEN Norm(3, MaxLimbsTernary)
    ELSE WideValues

MulInit ==
    /\ radix = BASE
    /\ cutoff = THRESHOLD
    /\ ArithIdle
    /\ StrIdle
    /\ PoolIdle
    /\ pc = "gen"
    /\ big_a = new
    /\ big_b = new
    /\ prod1 = <<>>
    /\ prod2 = <<>>
    /\ prod3 = <<>>
    /\ obs1 = NoObs
    /\ log2 = Leaf(<<>>, NoObs)
    /\ log3 = Leaf(<<>>, NoObs)

(* let a = random_bigint(n); let b = random_bigint(n); *)
Gen ==
    /\ pc = "gen"
    /\ \E B \in {2, 3, BASE} :
          /\ radix' = B
          /\ cutoff' = IF B = BASE THEN THRESHOLD ELSE SmallThreshold
          /\ big_a' \in TrialOperands(B)
          /\ big_b' \in TrialOperands(B)
    /\ prod1' = <<>>
    /\ prod2' = <<>>
    /\ prod3' = <<>>
    /\ obs1' = NoObs
    /\ log2' = Leaf(<<>>, NoObs)
    /\ log3' = Leaf(<<>>, NoObs)
    /\ pc' = "direct"
    /\ UNCHANGED <<arithVars, strVars, poolVars>>

(* let prod1 = a.mul_direct(&b); *)
Direct ==
    /\ pc = "direct"
    /\ LET run == mul_direct_run(radix, big_a, big_b)
       IN prod1' = run.result /\ obs1' = run.obs
    /\ pc' = "dc"
    /\ UNCHANGED <<radix, cutoff, arithVars, strVars, poolVars, big_a, big_b, prod2, prod3, log2, log3>>

(* let prod2 = a.mul_dc(&b); *)
Dc ==
    /\ pc = "dc"
    /\ log2' = mul_dc_run(radix, cutoff, big_a, big_b, 0)
    /\ prod2' = log2'.result
    /\ pc' = "kara"
    /\ UNCHANGED <<radix, cutoff, arithVars, strVars, poolVars, big_a, big_b, prod1, prod3, obs1, log3>>

(* let prod3 = a.mul_karatsuba(&b); *)
Kara ==
    /\ pc = "kara"
    /\ log3' = mul_karatsuba_run(radix, cutoff, big_a, big_b, 0)
    /\ prod3' = log3'.result
    /\ pc' = "assert"
    /\ UNCHANGED <<radix, cutoff, arithVars, strVars, poolVars, big_a, big_b, prod1, prod2, obs1, log2>>

(* assert_eq!(prod1, prod2); assert_eq!(prod1, prod3); a failed assertion *)
(* panics.  Otherwise the instance's values go out of scope and the loop   *)
(* starts its next instance.                                               *)
AssertEq ==
    /\ pc = "assert"
    /\ IF prod1 = prod2 /\ prod1 = prod3
       THEN /\ pc' = "gen"
            /\ big_a' = new
            /\ big_b' = new
            /\ prod1' = <<>>
            /\ prod2' = <<>>
            /\ prod3' = <<>>
            /\ obs1' = NoObs
            /\ log2' = Leaf(<<>>, NoObs)
            /\ log3' = Leaf(<<>>, NoObs)
       ELSE /\ pc' = "panic"
            /\ UNCHANGED <<big_a, big_b, prod1, prod2, prod3, obs1, log2, log3>>
    /\ UNCHANGED <<radix, cutoff, arithVars, strVars, poolVars>>

MulNext == Gen \/ Direct \/ Dc \/ Kara \/ AssertEq

SpecMul == MulInit /\ [][MulNext]_vars

-----------------------------------------------------------------------------
(* A decimal conversion: BigInt::from_str on a string, then to_string on   *)
(* the value.  A string is a head of any characters, a run of one repeated *)
(* digit, and a tail of any characters; "U+E9" is a character of two       *)
(* bytes, every other character is one byte.                               *)

Alphabet == {"0", "1", "9", "+", "x", "U+E9"}

Utf8(c) == IF c = "U+E9" THEN <<"C3", "A9">> ELSE <<c>>

RECURSIVE Encode(_)
Encode(chars) ==
    IF Len(chars) = 0 THEN <<>>
    ELSE Utf8(Head(chars)) \o Encode(Tail(chars))

Run(k, d) == [i \in 1..k |-> d]

Texts(n) == UNION {[1..k -> Alphabet] : k \in 0..n}

StrInputs ==
    { Encode(h) \o Run(k, d) \o Encode(t) :
          h \in Texts(MaxHead), k \in 0..MaxRun, d \in {"0", "9"},
          t \in Texts(MaxTail) }

StrInit ==
    /\ radix = BASE
    /\ cutoff = THRESHOLD
    /\ ArithIdle
    /\ MulIdle
    /\ PoolIdle
    /\ spc = "input"
    /\ text \in StrInputs
    /\ parsed = NotParsed
    /\ shown = <<>>

(* BigInt::from_str(&s) *)
FromStr ==
    /\ spc = "input"
    /\ parsed' = from_str_run(text)
    /\ spc' = IF parsed'.panicked THEN "panic" ELSE "parsed"
    /\ UNCHANGED <<radix, cutoff, arithVars, mulVars, poolVars, text, shown>>

(* .to_string() of the value from_str returned *)
ToStr ==
    /\ spc = "parsed"
    /\ shown' = to_string(parsed.digits)
    /\ spc' = "shown"
    /\ UNCHANGED <<radix, cutoff, arithVars, mulVars, poolVars, text, parsed>>

StrNext == FromStr \/ ToStr

SpecStr == StrInit /\ [][StrNext]_vars

-----------------------------------------------------------------------------
(* A sequence of operations on two BigInts, both BigInt::new() at first.   *)
(* Each operation takes its operands from the two values in either order   *)
(* and its result replaces one of them.  The multiplications recurse above *)
(* `cutoff` limbs.                                                         *)

PoolStrings ==
    { <<>>, <<"0">>, <<"7">>, <<"1", "x">>, Run(9, "9"), <<"1">> \o Run(9, "0"),
      Run(18, "9") }

PoolInit ==
    /\ radix = BASE
    /\ cutoff \in {SmallThreshold, THRESHOLD}
    /\ ArithIdle
    /\ MulIdle
    /\ StrIdle
    /\ val_x = new
    /\ val_y = new
    /\ nops = 0

Store(v) ==
    /\ \/ val_x' = v /\ UNCHANGED val_y
       \/ val_y' = v /\ UNCHANGED val_x
    /\ nops' = nops + 1
    /\ UNCHANGED <<radix, cutoff, arithVars, mulVars, strVars>>

Operands == {<<val_x, val_y>>, <<val_y, val_x>>}

PoolFromStr ==
    /\ nops < MaxOps
    /\ \E s \in PoolStrings :
          /\ ~from_str_run(s).panicked
          /\ Store(from_str_run(s).digits)

PoolAdd ==
    /\ nops < MaxOps
    /\ \E ab \in Operands : Store(add_slices(radix, ab[1], ab[2]))

PoolSub ==
    /\ nops < MaxOps
    /\ \E ab \in Operands : Store(sub_slices(radix, ab[1], ab[2]))

PoolShiftLeft ==
    /\ nops < MaxOps
    /\ \E ab \in Operands, k \in 0..MaxShift : Store(shift_left_slices(ab[1], k))

PoolMulDirect ==
    /\ nops < MaxOps
    /\ \E ab \in Operands : Store(mul_direct_slices(radix, ab[1], ab[2]))

PoolMulDc ==
    /\ nops < MaxOps
    /\ \E ab \in Operands : Store(mul_dc_slices(radix, cutoff, ab[1], ab[2]))

PoolMulKaratsuba ==
    /\ nops < MaxOps
    /\ \E ab \in Operands : Store(mul_karatsuba_slices(radix, cutoff, ab[1], ab[2]))

PoolNext ==
    \/ PoolFromStr
    \/ PoolAdd
    \/ PoolSub
    \/ PoolShiftLeft
    \/ PoolMulDirect
    \/ PoolMulDc
    \/ PoolMulKaratsuba

SpecPool == PoolInit /\ [][PoolNext]_vars

-----------------------------------------------------------------------------
(* Claims about the primitives, checked under SpecArith. *)

SumResidues(B, x, y, z) ==
    \A p \in Moduli : Residue(B, z, p) = (Residue(B, x, p) + Residue(B, y, p)) % p

(* C5: for all limb sequences lhs and rhs with limbs below B, of different *)
(* lengths and empty ones included, add returns the normalized limb        *)
(* sequence of value(lhs) + value(rhs), at most one limb longer than the   *)
(* longer operand; add(lhs, rhs) = add(rhs, lhs), and add(lhs, zero) = lhs *)
(* for normalized lhs.                                                     *)
C5_AddExact ==
    op = "add" =>
       /\ Normalized(radix, res)
       /\ SumFits(radix, lhs, rhs) =>
             ValueFits(radix, res)
             /\ Value(radix, res) = Value(radix, lhs) + Value(radix, rhs)
       /\ SumResidues(radix, lhs, rhs, res)
       /\ Len(res) <= Max(Len(lhs), Len(rhs)) + 1
       /\ res = add_slices(radix, rhs, lhs)
       /\ (Normalized(radix, lhs) /\ rhs = new) => res = lhs

C5_Witness ==
    /\ op = "add"
    /\ radix = BASE
    /\ lhs = <<BASE - 1>>
    /\ rhs = <<1>>
    /\ res = <<0, 1>>

(* C6: for all normalized lhs and rhs with value(lhs) >= value(rhs), sub   *)
(* returns the normalized limb sequence of value(lhs) - value(rhs), and    *)
(* its loop ends with borrow 0 after the last limb of lhs.                 *)
C6_SubExact ==
    (op = "sub" /\ Normalized(radix, lhs) /\ Normalized(radix, rhs)
                /\ ValueGE(lhs, rhs)) =>
       /\ Normalized(radix, res)
       /\ borrow = 0
       /\ ValueFits(radix, lhs) =>
             ValueFits(radix, res)
             /\ Value(radix, res) = Value(radix, lhs) - Value(radix, rhs)
       /\ SumResidues(radix, res, rhs, lhs)

C6_Witness ==
    /\ op = "sub"
    /\ radix = BASE
    /\ lhs = <<0, 1>>
    /\ rhs = <<1>>
    /\ res = <<BASE - 1>>
    /\ borrow = 0

-----------------------------------------------------------------------------
(* Claims about the decimal conversions, checked under SpecStr. *)

(* Digits only, no leading zero unless the string is "0". *)
Canonical(s) ==
    /\ Len(s) >= 1
    /\ \A i \in 1..Len(s) : IsDigit(s[i])
    /\ (s[1] # "0" \/ s = <<"0">>)

(* C4: for every canonical decimal string, of a length that is or is not a *)
(* multiple of 9, to_string(from_str(s)) = s: the top limb is rendered     *)
(* without padding and every lower limb as exactly 9 digits.               *)
C4_RoundTrip ==
    (spc = "shown" /\ Canonical(text)) =>
       /\ shown = text
       /\ Len(shown) = Len(to_decimal(parsed.digits[Len(parsed.digits)]))
                          + 9 * (Len(parsed.digits) - 1)

C4_Witness ==
    /\ spc = "shown"
    /\ Canonical(text)
    /\ Len(text) = 19
    /\ parsed.digits = <<9, 0, 1>>
    /\ shown = text

(* The k-th chunk from_str takes from the right end of s. *)
ChunkOf(s, k) == SubSeq(s, Max(1, Len(s) - 9 * k + 1), Len(s) - 9 * (k - 1))

HasNonDigit(chunk) == \E i \in 1..Len(chunk) : ~IsDigit(chunk[i])

(* C7: from_str signals no error for any input string: the empty string    *)
(* yields zero, and every chunk of at most 9 characters taken from the     *)
(* right end that contains a non-digit character contributes the limb 0.   *)
C7_FromStrNeverFails ==
    spc \in {"parsed", "shown", "panic"} =>
       /\ ~parsed.panicked
       /\ Len(text) = 0 => parsed.digits = <<0>>
       /\ \A k \in 1..Len(parsed.pushed) :
             HasNonDigit(ChunkOf(text, k)) => parsed.pushed[k] = 0

-----------------------------------------------------------------------------
(* Claims about sequences of operations, checked under SpecPool. *)

(* C3: every BigInt reached by a sequence of from_str, add, sub,           *)
(* shift_left, mul_direct, mul_dc and mul_karatsuba from values built by   *)
(* new and from_str has at least one limb, every limb in 0 .. 10^9 - 1,    *)
(* and a nonzero top limb unless it is exactly <<0>>.                      *)
C3_RepresentationInvariant ==
    /\ Normalized(BASE, val_x)
    /\ Normalized(BASE, val_y)

C3_Witness ==
    /\ nops >= 3
    /\ Len(val_x) > 3
    /\ val_x[1] = 0
    /\ val_y = <<0>>

-----------------------------------------------------------------------------
(* Claims about the multiplications, checked under SpecMul. *)

Computed1 == pc \in {"dc", "kara", "assert", "panic"}

Computed2 == pc \in {"kara", "assert", "panic"}

Computed3 == pc \in {"assert", "panic"}

(* C1: for every pair of normalized operands, operands at and one above    *)
(* the recursion threshold, of very different lengths and zero included,   *)
(* mul_direct, mul_dc and mul_karatsuba return identical limb sequences,   *)
(* so neither assert_eq! of the driver fails.                              *)
C1_ThreeProductsAgree ==
    /\ Computed3 => prod1 = prod2 /\ prod1 = prod3
    /\ pc # "panic"

C1_Witness ==
    /\ pc = "assert"
    /\ cutoff = THRESHOLD
    /\ Len(big_a) = THRESHOLD + 1
    /\ Len(big_b) = THRESHOLD
    /\ log2.frames # {}
    /\ log3.frames # {}
    /\ prod1 = prod3
    /\ Len(prod1) = 2 * THRESHOLD + 1

(* C2: each of the three multiplications returns the normalized limb       *)
(* sequence whose value is value(a) * value(b); multiplying by one returns *)
(* a and multiplying by zero returns zero.                                 *)
ExactProduct(z) ==
    /\ Normalized(radix, z)
    /\ IsProduct(radix, big_a, big_b, z)
    /\ big_b = <<1>> => z = big_a
    /\ big_a = <<1>> => z = big_b
    /\ (big_b = <<0>> \/ big_a = <<0>>) => z = <<0>>

C2_ExactProduct ==
    /\ Computed1 => ExactProduct(prod1)
    /\ Computed2 => ExactProduct(prod2)
    /\ Computed3 => ExactProduct(prod3)

C2_Witness ==
    /\ pc = "assert"
    /\ radix = 2
    /\ Len(big_a) = MaxLimbsBinary
    /\ Len(prod3) = 2 * MaxLimbsBinary
    /\ log3.frames # {}
    /\ Value(radix, prod3) = Value(radix, big_a) * Value(radix, big_b)

(* C8: at every level of mul_karatsuba_slices the call sub_slices(u,       *)
(* sum_pq) has value(u) >= value(p) + value(q) and len(u) >= len(sum_pq),  *)
(* so the subtraction ends without a borrow and ignores no limb of sum_pq, *)
(* and mid is a0 * b1 + a1 * b0.                                           *)
IsCrossTerm(B, f) ==
    /\ (/\ ProductFits(B, f.a0, f.b1)
        /\ ProductFits(B, f.a1, f.b0)
        /\ Value(B, f.a0) * Value(B, f.b1)
              <= 2147483647 - Value(B, f.a1) * Value(B, f.b0))
       => /\ ValueFits(B, f.mid)
          /\ Value(B, f.mid) = Value(B, f.a0) * Value(B, f.b1)
                                  + Value(B, f.a1) * Value(B, f.b0)
    /\ \A p \in Moduli :
          Residue(B, f.mid, p)
            = (((Residue(B, f.a0, p) * Residue(B, f.b1, p)) % p)
                 + ((Residue(B, f.a1, p) * Residue(B, f.b0, p)) % p)) % p

SubtractionSafe(B, f) ==
    /\ ValueGE(f.u, f.sum_pq)
    /\ (SumFits(B, f.p, f.q) /\ ValueFits(B, f.u)) =>
          Value(B, f.u) >= Value(B, f.p) + Value(B, f.q)
    /\ Len(f.u) >= Len(f.sum_pq)
    /\ f.borrow = 0
    /\ IsCrossTerm(B, f)

C8_KaratsubaSubtractionSafe ==
    Computed3 => \A f \in log3.frames : SubtractionSafe(radix, f)

C8_Witness ==
    /\ pc = "assert"
    /\ \E f \in log3.frames :
          /\ f.b1 = <<>>
          /\ Len(f.a0) > 1 /\ f.a0[Len(f.a0)] = 0
          /\ f.mid # <<0>>
    /\ \E f \in log3.frames : Len(f.u) > Len(f.mid)

(* C9: mul_dc_slices and mul_karatsuba_slices terminate: at every level    *)
(* that recurses (n above the threshold), each recursive call, the one on  *)
(* sum_a and sum_b included, has operands of fewer than n limbs, and no    *)
(* call nests deeper than the stack allows.                                *)
Shrinks(f, x, y) == Max(Len(x), Len(y)) < f.n

C9_RecursionTerminates ==
    /\ Computed2 =>
          /\ ~log2.overflow
          /\ \A f \in log2.frames :
                /\ f.n > cutoff
                /\ Shrinks(f, f.a0, f.b0) /\ Shrinks(f, f.a1, f.b1)
                /\ Shrinks(f, f.a0, f.b1) /\ Shrinks(f, f.a1, f.b0)
    /\ Computed3 =>
          /\ ~log3.overflow
          /\ \A f \in log3.frames :
                /\ f.n > cutoff
                /\ Shrinks(f, f.a0, f.b0) /\ Shrinks(f, f.a1, f.b1)
                /\ Shrinks(f, f.sum_a, f.sum_b)

C9_Witness ==
    /\ pc = "assert"
    /\ \E f \in log3.frames :
          /\ Len(f.sum_a) = Len(f.a1) + 1
          /\ Len(f.sum_a) > cutoff
    /\ Cardinality(log3.frames) >= 2
    /\ log2.frames # {}

(* C10: in mul_direct_slices, for operands with limbs below B, temp never  *)
(* exceeds 2^64 - 1, every carry stays below B, and the carry loop never   *)
(* reaches k = result.len(): result.push(0) is never executed.             *)
WithinWidths(o) ==
    /\ FitsU64(radix, o.maxTemp)
    /\ o.maxCarry < radix
    /\ o.pushes = 0

C10_DirectStaysInBounds ==
    /\ Computed1 => WithinWidths(obs1) /\ Len(prod1) <= Len(big_a) + Len(big_b)
    /\ Computed2 => WithinWidths(log2.obs)
    /\ Computed3 => WithinWidths(log3.obs)

C10_Witness ==
    /\ pc = "assert"
    /\ radix = BASE
    /\ obs1.maxTemp = <<BASE - 1, BASE - 1>>
    /\ Len(prod1) = Len(big_a) + Len(big_b)
    /\ Len(big_a) > THRESHOLD

====
